---- MODULE Spec2Model ----
(***************************************************************************)
(* The Azure DNS provider of lego (providers/dns/azure): Present, CleanUp  *)
(* and getHostedZoneID of dnsProvider, against a backend that stores TXT   *)
(* record sets per (zone, record name).                                    *)
(*                                                                         *)
(* Encoding of strings.  A DNS name is the sequence of its labels, i.e.    *)
(* strings.Split(name, "."): "example.com" is <<"example","com">>, and a   *)
(* trailing dot shows as a last empty label, "example.com." being          *)
(* <<"example","com","">>.  The empty string is <<>>.  TXT strings and key  *)
(* authorizations are atoms.  A *string that is nil is the atom NilString. *)
(*                                                                         *)
(* A TXT record set holds a list of entries, each a list of strings.  The  *)
(* code never looks at the order of the entries (it inserts them in a map) *)
(* so the list of entries is kept as a bag of entries.                     *)
(***************************************************************************)
EXTENDS Integers, Sequences, FiniteSets, Bags, TLC

\* Number of Present/CleanUp calls of one run; they may overlap.
MaxCalls == 2

\* Config.TTL as NewDefaultConfig sets it.
DefaultTTL == 60

Calls == 1..MaxCalls

NilString == "<nil>"

AcmeLabel == "_acme-challenge"

\* The inputs of the calls.
Domains == { <<"example", "com">>, <<"www", "example", "com">> }
KeyAuths == { "k1", "k2" }

\* What AZURE_ZONE_NAME may hold: unset, the hosted zone, a zone that is no
\* suffix of the challenge names.
ZoneNameSettings == { <<>>, <<"example", "com">>, <<"other", "org">> }

\* The zone the DNS delegates the challenge names to (a fully-qualified name).
AuthZone == <<"example", "com", "">>

VARIABLES
    envZoneName,          \* the value of the environment variable AZURE_ZONE_NAME
    loopVarPerIteration,  \* how the build scopes the variable of a range loop
    zones,                \* backend: zone name -> the zone's Name property
    recordSets,           \* backend: <<zone, record name>> -> TXT record set
    call                  \* the calls of Present and CleanUp, by call number

vars == <<envZoneName, loopVarPerIteration, zones, recordSets, call>>

----------------------------------------------------------------------------
(* Names *)

Last(s) == s[Len(s)]

Front(s) == SubSeq(s, 1, Len(s) - 1)

\* dns01.UnFqdn: the name without its trailing dot.
UnFqdn(name) == IF Len(name) > 0 /\ Last(name) = "" THEN Front(name) ELSE name

\* dns01.ToFqdn / dns.Fqdn: the name with a trailing dot.
ToFqdn(name) == IF Len(name) > 0 /\ Last(name) = "" THEN name ELSE Append(name, "")

IsSuffix(s, t) ==
    /\ Len(s) <= Len(t)
    /\ SubSeq(t, Len(t) - Len(s) + 1, Len(t)) = s

\* dns01.GetRecord: the challenge's record name and TXT value.  The value is
\* the base64url SHA-256 digest of the key authorization, one value per key
\* authorization.
ChallengeValue(keyAuth) ==
    CASE keyAuth = "k1" -> "v1"
      [] keyAuth = "k2" -> "v2"

GetRecord(domain, keyAuth) ==
    [fqdn |-> <<AcmeLabel>> \o ToFqdn(domain), value |-> ChallengeValue(keyAuth)]

\* dns01.ExtractSubDomain: the name relative to the zone; an error when the
\* zone is the name itself or no suffix of it.
ExtractSubDomain(fqdn, zone) ==
    LET canonDomain == ToFqdn(fqdn)
        canonZone == ToFqdn(zone)
    IN  IF canonDomain # canonZone /\ IsSuffix(canonZone, canonDomain)
        THEN [ok |-> TRUE,
              subDomain |-> SubSeq(canonDomain, 1, Len(canonDomain) - Len(canonZone))]
        ELSE [ok |-> FALSE, subDomain |-> <<>>]

\* dns01.FindZoneByFqdn: the zone that holds the SOA record of the name.
FindZoneByFqdn(fqdn) ==
    IF IsSuffix(AuthZone, fqdn) THEN [ok |-> TRUE, zone |-> AuthZone]
    ELSE [ok |-> FALSE, zone |-> <<>>]

\* to.String: the string a *string points to, "" for nil.
String(s) == IF s = <<NilString>> THEN <<>> ELSE s

----------------------------------------------------------------------------
(* The backend *)

NoTxt == EmptyBag

\* A record set that is not stored.
Absent == [exists |-> FALSE, ttl |-> 0, txt |-> NoTxt]

RecordSet(ttl, txt) == [exists |-> TRUE, ttl |-> ttl, txt |-> txt]

\* The zone names a call can address and the record names under them.
ZoneKeys == { <<"example", "com">>, <<"example", "com", "">> }
SubDomains == { <<AcmeLabel>>, <<AcmeLabel, "www">> }
Keys == ZoneKeys \X SubDomains

\* The record set a run may find at _acme-challenge of the hosted zone:
\* none, a value left behind, entries of several strings or of none, and a
\* set that already holds one challenge value twice.
InitialRecordSets ==
    { Absent,
      RecordSet(3600, SetToBag({ <<"old", "tail">>, <<>>, <<NilString, "tail">> })),
      RecordSet(DefaultTTL, [e \in { <<"v1">> } |-> 2]) }

\* What the backend may hold under the name of the hosted zone: no zone, or
\* a zone whose Name property comes without or with the trailing dot.
NoZones == [z \in {} |-> <<>>]
ZoneTables ==
    { NoZones } \cup
    { [z \in { <<"example", "com">> } |-> name] :
        name \in { <<"example", "com">>, <<"example", "com", "">> } }

\* RecordSetsClient.Get as the caller sees it: rset.Properties is nil when
\* the call failed.
GetResult(err, rs) ==
    [err |-> err,
     hasProperties |-> (err = "" /\ rs.exists),
     ttl |-> IF err = "" /\ rs.exists THEN rs.ttl ELSE 0,
     txt |-> IF err = "" /\ rs.exists THEN rs.txt ELSE NoTxt]

NoResult == GetResult("none", Absent)

\* RecordSetsClient.Get: "error" is any failure other than 404.
RecordSetsGet(store, key, fails) ==
    IF fails THEN GetResult("error", Absent)
    ELSE IF ~store[key].exists THEN GetResult("notfound", Absent)
    ELSE GetResult("", store[key])

\* RecordSetsClient.CreateOrUpdate: the record set replaces what is stored.
RecordSetsCreateOrUpdate(store, key, rec) == [store EXCEPT ![key] = rec]

\* RecordSetsClient.Delete: the record set is no longer stored.
RecordSetsDelete(store, key) == [store EXCEPT ![key] = Absent]

\* What RecordSetsClient.Delete may answer: any failure ("error"), and for a
\* record set that is not stored either success or 404.
DeleteOutcomes(store, key) ==
    IF store[key].exists THEN { "", "error" } ELSE { "", "notfound", "error" }

\* ZonesClient.Get: the zone's Name, 404 for a zone the backend does not
\* hold, "error" for any other failure.
ZonesGet(zs, name, fails) ==
    IF fails THEN [err |-> "error", name |-> <<NilString>>]
    ELSE IF name \notin DOMAIN zs THEN [err |-> "notfound", name |-> <<NilString>>]
    ELSE [err |-> "", name |-> zs[name]]

\* One entry of a call's log: the operation called and what it answered
\* ("" for success).
Called(operation, answer) == <<operation, answer>>

----------------------------------------------------------------------------
(* Zone resolution *)

\* What can go wrong in getHostedZoneID after the discovery: the
\* construction of the zones client, the backend's Zones.Get.
ZoneFaults == { "none", "client", "get" }

\* A resolver that never looks at the override.
getHostedZoneIDNoOverride(zoneName) == [overridden |-> FALSE, zone |-> <<>>]

\* getHostedZoneID, lines 119-121: a zone name set in the environment is the
\* zone, and nothing is asked of anyone.
getHostedZoneID(zoneName) == [overridden |-> zoneName # <<>>, zone |-> zoneName]

\* getHostedZoneID, lines 123-126: the discovery, and the entry it leaves in
\* the call's log.
FindZone(fqdn, fails) ==
    LET authZone == FindZoneByFqdn(fqdn)
    IN  IF fails \/ ~authZone.ok
        THEN [zone |-> <<>>, failed |-> TRUE, log |-> << Called("FindZoneByFqdn", "error") >>]
        ELSE [zone |-> authZone.zone, failed |-> FALSE,
              log |-> << Called("FindZoneByFqdn", "") >>]

\* A getter that takes the zone found for granted when Zones.Get fails.
DiscoverZoneUnverified(zs, authZone, fault) ==
    LET zone == ZonesGet(zs, UnFqdn(authZone), fault = "get")
    IN  IF fault = "client"
        THEN [zone |-> <<>>, failed |-> TRUE, log |-> <<>>]
        ELSE IF zone.err # ""
        THEN [zone |-> UnFqdn(authZone), failed |-> FALSE,
              log |-> << Called("Zones.Get", zone.err) >>]
        ELSE [zone |-> String(zone.name), failed |-> FALSE,
              log |-> << Called("Zones.Get", "") >>]

\* getHostedZoneID, lines 128-139: the zones client, Zones.Get for the zone
\* found, and the zone's Name as the backend gives it.
DiscoverZone(zs, authZone, fault) ==
    LET zone == ZonesGet(zs, UnFqdn(authZone), fault = "get")
    IN  IF fault = "client"
        THEN [zone |-> <<>>, failed |-> TRUE, log |-> <<>>]
        ELSE IF zone.err # ""
        THEN [zone |-> <<>>, failed |-> TRUE, log |-> << Called("Zones.Get", zone.err) >>]
        ELSE [zone |-> String(zone.name), failed |-> FALSE,
              log |-> << Called("Zones.Get", "") >>]

----------------------------------------------------------------------------
(* The calls *)

IdleCall ==
    [pc |-> "idle", op |-> "", domain |-> <<>>, keyAuth |-> "", value |-> "",
     zone |-> <<>>, subDomain |-> <<>>, rset |-> NoResult, err |-> "", log |-> <<>>]

\* A call returns: its locals are gone; what stays on record is the
\* operation, its error (or "") and the calls it made, and of a call that
\* succeeded what it was called with.
Return(c, err, log) ==
    IF err = ""
    THEN [c EXCEPT !.pc = "returned", !.err = err, !.log = log, !.rset = NoResult]
    ELSE [IdleCall EXCEPT !.pc = "returned", !.op = c.op, !.err = err, !.log = log]

\* The calls start in the order of their numbers.
MayStart(c) ==
    /\ call[c].pc = "idle"
    /\ c > 1 => call[c - 1].pc # "idle"

Faults == [zone : ZoneFaults, client : BOOLEAN]

\* The first record-set call of an operation: Present reads, CleanUp deletes.
FirstRecordSetCall(op) == IF op = "Present" THEN "get" ELSE "delete"

\* A Present that goes from its zone to its write without the read.
ResolveSkippingRead(c, zone, log, clientFails) ==
    LET sub == ExtractSubDomain(GetRecord(c.domain, c.keyAuth).fqdn, zone)
    IN  IF c.op = "Present" /\ clientFails THEN Return(c, "client", log)
        ELSE IF ~sub.ok THEN Return(c, "subdomain", log)
        ELSE IF clientFails THEN Return(c, "client", log)
        ELSE [c EXCEPT !.pc = IF c.op = "Present" THEN "put" ELSE "delete",
                       !.zone = zone, !.subDomain = sub.subDomain,
                       !.log = log]

\* Present and CleanUp from the zone to their first record-set call: in
\* Present the record-sets client (lines 40-43) before the record name
\* (lines 45-48), in CleanUp the record name (lines 100-103) before the
\* record-sets client (lines 105-108).  Nothing here waits for an answer.
Resolve(c, zone, log, clientFails) ==
    LET sub == ExtractSubDomain(GetRecord(c.domain, c.keyAuth).fqdn, zone)
    IN  IF c.op = "Present" /\ clientFails THEN Return(c, "client", log)
        ELSE IF ~sub.ok THEN Return(c, "subdomain", log)
        ELSE IF clientFails THEN Return(c, "client", log)
        ELSE [c EXCEPT !.pc = FirstRecordSetCall(c.op),
                       !.zone = zone, !.subDomain = sub.subDomain,
                       !.log = log]

\* The call begins: the challenge record (lines 33, 93) and the override
\* (lines 119-121).  With the override the call runs on to its first
\* record-set call; without it the call asks FindZoneByFqdn and waits.
Begin(c, op, domain, keyAuth, clientFails) ==
    LET started == [c EXCEPT !.op = op, !.domain = domain, !.keyAuth = keyAuth,
                             !.value = GetRecord(domain, keyAuth).value]
        z == getHostedZoneID(envZoneName)
    IN  IF z.overridden
        THEN Resolve(started, z.zone, <<>>, clientFails)
        ELSE [started EXCEPT !.pc = "find"]

\* Present, lines 32-35 and 119-123, with the override lines 32-48.
PresentStart(c, domain, keyAuth, clientFails) ==
    /\ MayStart(c)
    /\ call' = [call EXCEPT ![c] = Begin(call[c], "Present", domain, keyAuth, clientFails)]
    /\ UNCHANGED <<envZoneName, loopVarPerIteration, zones, recordSets>>

\* getHostedZoneID, lines 123-133: FindZoneByFqdn answers; on an error the
\* call returns, otherwise it asks the backend for the zone and waits.
ZoneFound(c, fails) ==
    /\ call[c].pc = "find"
    /\ LET found == FindZone(GetRecord(call[c].domain, call[c].keyAuth).fqdn, fails)
       IN  call' = [call EXCEPT ![c] =
                IF found.failed
                THEN Return(call[c], "zone", found.log)
                ELSE [call[c] EXCEPT !.pc = "zone", !.log = found.log]]
    /\ UNCHANGED <<envZoneName, loopVarPerIteration, zones, recordSets>>

\* getHostedZoneID, lines 128-139, and the caller up to its first record-set
\* call: Zones.Get answers (or the zones client was not made).
ZoneGot(c, fault) ==
    /\ call[c].pc = "zone"
    /\ LET authZone == FindZoneByFqdn(GetRecord(call[c].domain, call[c].keyAuth).fqdn).zone
           z == DiscoverZone(zones, authZone, fault.zone)
           log == call[c].log \o z.log
       IN  call' = [call EXCEPT ![c] =
                IF z.failed
                THEN Return(call[c], "zone", log)
                ELSE Resolve(call[c], z.zone, log, fault.client)]
    /\ UNCHANGED <<envZoneName, loopVarPerIteration, zones, recordSets>>

Key(c) == <<call[c].zone, call[c].subDomain>>

\* A read whose 404 is an error like any other.
ReadIsFatalAlso404(err) == err # ""

\* A read none of whose errors ends the call.
ReadIsNeverFatal(err) == FALSE

\* Present, lines 52-57: which answers of the read end the call.
ReadIsFatal(err) == err \notin { "", "notfound" }

\* Present, lines 50-57: the read of the record set; only 404 is survived.
PresentGet(c, fails) ==
    /\ call[c].pc = "get"
    /\ LET rset == RecordSetsGet(recordSets, Key(c), fails)
           log == Append(call[c].log, Called("RecordSets.Get", rset.err))
       IN  call' = [call EXCEPT ![c] =
                IF ReadIsFatal(rset.err)
                THEN Return(call[c], "get", log)
                ELSE [call[c] EXCEPT !.pc = "put", !.rset = rset, !.log = log]]
    /\ UNCHANGED <<envZoneName, loopVarPerIteration, zones, recordSets>>

\* A merge that starts from what the backend holds at the time of the write.
ExistingRecordsAtWrite(c) == RecordSetsGet(recordSets, Key(c), FALSE)

\* Present, lines 61-62: the entries the merge starts from are those of rset,
\* the answer of the read of line 51.
ExistingRecords(c) == call[c].rset

\* A merge that takes every string of every entry read.
uniqRecordsAllStrings(value, rset) ==
    { value } \cup
    IF rset.hasProperties
    THEN UNION { { e[i] : i \in 1..Len(e) } : e \in BagToSet(rset.txt) }
    ELSE {}

\* A merge that takes the first string of an entry without asking whether
\* it is set.
uniqRecordsNoNilCheck(value, rset) ==
    { value } \cup
    IF rset.hasProperties
    THEN { txtRecord[1] : txtRecord \in { e \in BagToSet(rset.txt) : Len(e) > 0 } }
    ELSE {}

\* Present, lines 60-68: the new value and the first string of every entry read.
uniqRecords(value, rset) ==
    { value } \cup
    IF rset.hasProperties
    THEN { txtRecord[1] : txtRecord \in
             { e \in BagToSet(rset.txt) : Len(e) > 0 /\ e[1] # NilString } }
    ELSE {}

\* Present, lines 70-73: one entry per key of the map, each holding &txt.
\* With one variable per iteration every entry points to its own key.  With
\* one variable for the whole loop all entries point to that variable, which
\* holds the key the map iteration gave last: any of them.
txtRecordsOf(uniq, perIteration) ==
    IF perIteration
    THEN { SetToBag({ <<txt>> : txt \in uniq }) }
    ELSE { [e \in { <<txt>> } |-> Cardinality(uniq)] : txt \in uniq }

\* A record set sent without its TTL.
recWithoutTTL(ttl, txtRecords) == RecordSet(0, txtRecords)

\* Present, lines 75-81: the record set sent to the backend.
rec(ttl, txtRecords) == RecordSet(ttl, txtRecords)

\* Present, lines 59-87: the record set is rebuilt and written.
PresentCreateOrUpdate(c, fails) ==
    /\ call[c].pc = "put"
    /\ LET answer == IF fails THEN "error" ELSE ""
           log == Append(call[c].log, Called("RecordSets.CreateOrUpdate", answer))
       IN  IF fails
           THEN /\ call' = [call EXCEPT ![c] = Return(call[c], "put", log)]
                /\ UNCHANGED recordSets
           ELSE \E txtRecords \in txtRecordsOf(uniqRecords(call[c].value, ExistingRecords(c)),
                                               loopVarPerIteration) :
                /\ recordSets' = RecordSetsCreateOrUpdate(recordSets, Key(c),
                                                          rec(DefaultTTL, txtRecords))
                /\ call' = [call EXCEPT ![c] = Return(call[c], "", log)]
    /\ UNCHANGED <<envZoneName, loopVarPerIteration, zones>>

\* CleanUp, lines 92-95 and 119-123, with the override lines 92-108.
CleanUpStart(c, domain, keyAuth, clientFails) ==
    /\ MayStart(c)
    /\ call' = [call EXCEPT ![c] = Begin(call[c], "CleanUp", domain, keyAuth, clientFails)]
    /\ UNCHANGED <<envZoneName, loopVarPerIteration, zones, recordSets>>

\* A clean-up that takes only the call's own value out of the record set.
CleanUpRemoveOwnValue(store, key, value) ==
    LET kept == { e \in BagToSet(store[key].txt) : e # <<value>> }
    IN  IF kept = {} THEN RecordSetsDelete(store, key)
        ELSE [store EXCEPT ![key] =
                 RecordSet(store[key].ttl, [e \in kept |-> store[key].txt[e]])]

\* A clean-up that deletes every record set of the zone.
CleanUpWholeZone(store, key, value) ==
    [k \in DOMAIN store |-> IF k[1] = key[1] THEN Absent ELSE store[k]]

\* CleanUp, line 110: what the call asks the backend to do with the record
\* set; the challenge value plays no part in it.
CleanUpRequest(store, key, value) == RecordSetsDelete(store, key)

\* CleanUp, lines 111-114: the error returned for the answer of the delete.
CleanUpError(answer) == IF answer # "" THEN "delete" ELSE ""

\* CleanUp, lines 110-114: the delete of the whole record set.
CleanUpDelete(c, answer) ==
    /\ call[c].pc = "delete"
    /\ answer \in DeleteOutcomes(recordSets, Key(c))
    /\ recordSets' = IF answer = ""
                     THEN CleanUpRequest(recordSets, Key(c), call[c].value)
                     ELSE recordSets
    /\ call' = [call EXCEPT ![c] =
                   Return(call[c], CleanUpError(answer),
                          Append(call[c].log, Called("RecordSets.Delete", answer)))]
    /\ UNCHANGED <<envZoneName, loopVarPerIteration, zones>>

----------------------------------------------------------------------------
(* The specifications *)

HostedKey == << <<"example", "com">>, <<AcmeLabel>> >>

\* The challenges the calls are made for: two key authorizations for the
\* first domain, one for the second.
Challenges ==
    { ch \in [domain : Domains, keyAuth : KeyAuths] :
        ch.domain = <<"example", "com">> \/ ch.keyAuth = "k1" }

\* The zone name the calls of a run work with, <<>> when they get none.
ServedZone ==
    IF envZoneName # <<>> THEN envZoneName
    ELSE IF zones = NoZones THEN <<>>
    ELSE String(zones[<<"example", "com">>])

\* The backend's zones matter only when AZURE_ZONE_NAME is unset, and what
\* is stored at the start only where the calls of the run address it.
Init ==
    /\ envZoneName \in ZoneNameSettings
    /\ loopVarPerIteration \in BOOLEAN
    /\ zones \in ZoneTables
    /\ envZoneName # <<>> => zones = [z \in { <<"example", "com">> } |-> z]
    /\ \E rs \in InitialRecordSets :
          /\ rs # Absent => ServedZone = HostedKey[1]
          /\ recordSets = [k \in Keys |-> IF k = HostedKey THEN rs ELSE Absent]
    /\ call = [c \in Calls |-> IdleCall]

Next ==
    \E c \in Calls :
        \/ \E ch \in Challenges, f \in BOOLEAN : PresentStart(c, ch.domain, ch.keyAuth, f)
        \/ \E fails \in BOOLEAN : ZoneFound(c, fails)
        \/ \E f \in Faults : ZoneGot(c, f)
        \/ \E fails \in BOOLEAN : PresentGet(c, fails)
        \/ \E fails \in BOOLEAN : PresentCreateOrUpdate(c, fails)
        \/ \E ch \in Challenges, f \in BOOLEAN : CleanUpStart(c, ch.domain, ch.keyAuth, f)
        \/ \E a \in { "", "notfound", "error" } : CleanUpDelete(c, a)

Spec == Init /\ [][Next]_vars

\* No call is between its start and its return.
Quiet == \A c \in Calls : call[c].pc \in { "idle", "returned" }

\* The calls run one after the other.
SeqNext ==
    \E c \in Calls :
        \/ Quiet /\ \E ch \in Challenges, f \in BOOLEAN : PresentStart(c, ch.domain, ch.keyAuth, f)
        \/ \E fails \in BOOLEAN : ZoneFound(c, fails)
        \/ \E f \in Faults : ZoneGot(c, f)
        \/ \E fails \in BOOLEAN : PresentGet(c, fails)
        \/ \E fails \in BOOLEAN : PresentCreateOrUpdate(c, fails)
        \/ Quiet /\ \E ch \in Challenges, f \in BOOLEAN : CleanUpStart(c, ch.domain, ch.keyAuth, f)
        \/ \E a \in { "", "notfound", "error" } : CleanUpDelete(c, a)

SeqSpec == Init /\ [][SeqNext]_vars

----------------------------------------------------------------------------
(* What the claims speak of *)

Returned(c) == call[c].pc = "returned"

\* Call c was a call of op and returned no error.
Succeeded(c, op) == Returned(c) /\ call[c].op = op /\ call[c].err = ""

\* Call c has called the operation; it has got this answer from it.
Logged(c, operation) ==
    \E i \in 1..Len(call[c].log) : call[c].log[i][1] = operation

Answered(c, operation, answer) ==
    \E i \in 1..Len(call[c].log) : call[c].log[i] = Called(operation, answer)

\* The strings of a record set, and the first strings of its entries.
Strings(rs) == UNION { { e[i] : i \in 1..Len(e) } : e \in BagToSet(rs.txt) }

FirstStrings(rs) == { e[1] : e \in { x \in BagToSet(rs.txt) : Len(x) > 0 } }

\* The record set stored under the key holds the value.
Holds(key, value) == recordSets[key].exists /\ value \in Strings(recordSets[key])

NoCleanUpAfter(c) == \A e \in Calls : e > c => call[e].op # "CleanUp"

NoCleanUp == \A e \in Calls : call[e].op # "CleanUp"

\* Two calls of Present for one record name with two values, both returned
\* without error.
TwoPresents(c, d) ==
    /\ c # d
    /\ Succeeded(c, "Present") /\ Succeeded(d, "Present")
    /\ Key(c) = Key(d)
    /\ call[c].value # call[d].value

----------------------------------------------------------------------------
(* The claims *)

\* C1 (SeqSpec). After any sequence of successful Present calls that do not
\* overlap, with no CleanUp after them, the stored record set holds every
\* value presented.
C1_SequentialAdditivity ==
    \A c \in Calls :
        Succeeded(c, "Present") /\ NoCleanUpAfter(c) => Holds(Key(c), call[c].value)

\* C2 (SeqSpec). A Present that follows a successful Present with the same
\* domain and key authorization, nothing in between, leaves the entries of
\* the record set as they were and stores the value once.
C2_PresentIdempotent ==
    [][\A d \in Calls \ { 1 } :
         ( /\ Succeeded(d - 1, "Present")
           /\ call[d].pc = "put"
           /\ call[d].domain = call[d - 1].domain
           /\ call[d].keyAuth = call[d - 1].keyAuth
           /\ Succeeded(d, "Present")' )
         => /\ BagToSet(recordSets'[Key(d)].txt) = BagToSet(recordSets[Key(d)].txt)
            /\ CopiesIn(<<call[d].value>>, recordSets'[Key(d)].txt) = 1]_vars

C4_StaleWriteLosesValue ==
    [][\A c, d \in Calls :
         ( /\ c # d
           /\ Succeeded(c, "Present")
           /\ call[d].pc = "put"
           /\ Key(c) = Key(d)
           /\ call[c].value # call[d].value
           /\ call[c].value \notin FirstStrings(call[d].rset)
           /\ Succeeded(d, "Present")' )
         => ~Holds(Key(c), call[c].value)']_vars

\* C4's case: the lost update has happened.  Both calls returned success, no
\* CleanUp ran, every entry written had its own string, and one of the two
\* values is not stored.
C4_LostUpdate ==
    \E c, d \in Calls :
        /\ TwoPresents(c, d) /\ NoCleanUp
        /\ loopVarPerIteration
        /\ ~Holds(Key(c), call[c].value)
        /\ Holds(Key(d), call[d].value)

\* C5. A CleanUp whose delete the backend answers with not-found returns
\* success; one whose delete fails otherwise returns an error.
C5_CleanUpNotFoundIsSuccess ==
    \A c \in Calls :
        Returned(c) /\ call[c].op = "CleanUp"
        => /\ Answered(c, "RecordSets.Delete", "notfound") => call[c].err = ""
           /\ Answered(c, "RecordSets.Delete", "error") => call[c].err # ""

\* C6. A CleanUp that returns success has deleted the whole record set at
\* its record name, whatever it held: a read right after answers not-found.
C6_CleanUpDeletesWholeSet ==
    [][\A c \in Calls :
         call[c].pc = "delete" /\ Succeeded(c, "CleanUp")'
         => /\ recordSets'[Key(c)] = Absent
            /\ RecordSetsGet(recordSets', Key(c), FALSE).err = "notfound"]_vars

\* C6's case: a CleanUp has succeeded on a record name where a Present had
\* stored another challenge's value, and nothing is stored there.
C6_OtherValueDeleted ==
    \E c, d \in Calls :
        /\ Succeeded(c, "CleanUp") /\ Succeeded(d, "Present")
        /\ Key(c) = Key(d)
        /\ call[c].value # call[d].value
        /\ ~recordSets[Key(c)].exists

\* C7. A Present whose read is answered not-found goes on to the upsert, and
\* when the upsert succeeds the record set holds the new value, once, and
\* nothing else.
C7_PresentOnAbsent ==
    [][\A c \in Calls :
         /\ ( call[c].pc = "get" /\ Answered(c, "RecordSets.Get", "notfound")' )
            => call'[c].pc = "put"
         /\ ( /\ call[c].pc = "put"
              /\ call[c].rset.err = "notfound"
              /\ Succeeded(c, "Present")' )
            => /\ recordSets'[Key(c)].exists
               /\ recordSets'[Key(c)].txt = SetToBag({ <<call[c].value>> })]_vars

\* C7's case: a Present has succeeded after a read answered not-found.
C7_StoredAfterNotFound ==
    \E c \in Calls :
        /\ Succeeded(c, "Present")
        /\ Answered(c, "RecordSets.Get", "notfound")
        /\ recordSets[Key(c)].txt = SetToBag({ <<call[c].value>> })

\* C8. With AZURE_ZONE_NAME set, no call of Present or CleanUp calls the
\* zone discovery or the backend's get-zone, and the zone of every call is
\* the value of the variable, unchanged.
C8_OverrideSkipsDiscovery ==
    envZoneName # <<>>
    => \A c \in Calls :
        /\ ~Logged(c, "FindZoneByFqdn")
        /\ ~Logged(c, "Zones.Get")
        /\ call[c].err # "zone"
        /\ ( call[c].pc \in { "get", "put", "delete" } \/ Succeeded(c, call[c].op) )
           => call[c].zone = envZoneName

\* C8's case: with the override set, a Present and a CleanUp have gone
\* through zone resolution and returned.
C8_OverrideUsed ==
    /\ envZoneName # <<>>
    /\ \E c, d \in Calls : Succeeded(c, "Present") /\ Succeeded(d, "CleanUp")

\* C9. A Present that fails at zone resolution, at the derivation of the
\* record name, or on a read error other than not-found returns its error
\* without having called the upsert, and its steps leave the backend's
\* record sets as they were; a read error other than not-found always ends
\* the call.
C9_FailedPresentChangesNothing ==
    [][\A c \in Calls :
         /\ ( /\ call[c].pc \in { "idle", "find", "zone", "get" }
              /\ Returned(c)' /\ call'[c].op = "Present"
              /\ call'[c].err \in { "zone", "subdomain", "get" } )
            => /\ recordSets' = recordSets
               /\ ~Logged(c, "RecordSets.CreateOrUpdate")'
         /\ Answered(c, "RecordSets.Get", "error")'
            => Returned(c)' /\ call'[c].err = "get"]_vars

\* C9's case: a Present has failed on a read error while a record set was
\* stored.
C9_PresentFailedOnRead ==
    \E c \in Calls :
        /\ Returned(c) /\ call[c].op = "Present" /\ call[c].err = "get"
        /\ Answered(c, "RecordSets.Get", "error")
        /\ recordSets[HostedKey].exists

\* C10. Every record set written by Present holds each entry once.
C10_WrittenValuesAreASet ==
    [][\A c \in Calls :
         call[c].pc = "put" /\ Succeeded(c, "Present")'
         => \A e \in BagToSet(recordSets'[Key(c)].txt) :
                CopiesIn(e, recordSets'[Key(c)].txt) = 1]_vars

\* C11. The delete of a CleanUp that runs after the write of a successful
\* Present for another challenge's value on the same record name takes that
\* value out of the backend: the Present has returned success and its value
\* is not stored.
C11_DeleteAfterWriteErasesValue ==
    [][\A c, d \in Calls :
         ( /\ call[c].pc = "delete"
           /\ Succeeded(d, "Present")
           /\ <<call[c].zone, call[c].subDomain>> = <<call[d].zone, call[d].subDomain>>
           /\ call[c].value # call[d].value
           /\ Succeeded(c, "CleanUp")' )
         => ~Holds(<<call[d].zone, call[d].subDomain>>, call[d].value)']_vars

\* C11's case: the race has happened.  The CleanUp started before the
\* Present did, no other call has run, both returned success, and no record
\* set is stored: the write of the Present stored one, so the delete of the
\* CleanUp ran after it, and the value of the Present is not in the backend.
C11_PresentErasedByRacingCleanUp ==
    \E c, d \in Calls :
        /\ c < d
        /\ Succeeded(c, "CleanUp") /\ Succeeded(d, "Present")
        /\ Key(c) = Key(d)
        /\ call[c].value # call[d].value
        /\ \A e \in Calls \ {c, d} : call[e].pc = "idle"
        /\ Answered(d, "RecordSets.CreateOrUpdate", "")
        /\ ~recordSets[Key(d)].exists

\* The places of an operation in the log of call c.
Positions(c, operation) ==
    { i \in 1..Len(call[c].log) : call[c].log[i][1] = operation }

ZoneOperations == { "FindZoneByFqdn", "Zones.Get" }

WriteOperations == { "RecordSets.CreateOrUpdate", "RecordSets.Delete" }

RecordSetOperations == { "RecordSets.Get" } \cup WriteOperations

\* In the log of call c every call of an operation of the first set comes
\* before every call of an operation of the second.
AllBefore(c, first, second) ==
    \A i, j \in 1..Len(call[c].log) :
        call[c].log[i][1] \in first /\ call[c].log[j][1] \in second => i < j

\* Zone resolution of call c comes before its record-set calls: the calls it
\* makes come first, and with no override no record-set call is made before
\* the backend has answered Zones.Get.
ZoneResolvedFirst(c) ==
    /\ AllBefore(c, ZoneOperations, RecordSetOperations)
    /\ ( envZoneName = <<>> /\ \E o \in RecordSetOperations : Logged(c, o) )
       => Answered(c, "Zones.Get", "")

\* C12, as claimed. In every call of Present or CleanUp a read of the record
\* set comes before the write (upsert or delete), and zone resolution before
\* both.
C12_ReadPrecedesWrite ==
    \A c \in Calls :
        /\ \A w \in WriteOperations : \A j \in Positions(c, w) :
               \E i \in Positions(c, "RecordSets.Get") : i < j
        /\ ZoneResolvedFirst(c)

\* C12, amended. In every call of Present the read of the record set comes
\* before the upsert, and the read was answered with a record set or with
\* not-found.  A call of CleanUp reads no record set: its delete is its only
\* record-set call.  In both, zone resolution comes before every record-set
\* call.
C12_PresentReadsThenWritesCleanUpOnlyDeletes ==
    \A c \in Calls :
        /\ \A j \in Positions(c, "RecordSets.CreateOrUpdate") :
               \E i \in Positions(c, "RecordSets.Get") :
                   i < j /\ call[c].log[i][2] \in { "", "notfound" }
        /\ call[c].op = "CleanUp" => ~Logged(c, "RecordSets.Get")
        /\ call[c].op = "CleanUp" => ~Logged(c, "RecordSets.CreateOrUpdate")
        /\ call[c].op = "Present" => ~Logged(c, "RecordSets.Delete")
        /\ ZoneResolvedFirst(c)

\* C12's case: with no override a Present has resolved its zone, read and
\* written, and a CleanUp has resolved its zone and deleted.
C12_BothOperationsRan ==
    \E c, d \in Calls :
        /\ Succeeded(c, "Present") /\ Succeeded(d, "CleanUp")
        /\ Answered(c, "Zones.Get", "") /\ Answered(d, "Zones.Get", "")
        /\ Logged(c, "RecordSets.Get") /\ Logged(c, "RecordSets.CreateOrUpdate")
        /\ Logged(d, "RecordSets.Delete")

\* The answers after which a call goes on: success, and for the read of the
\* record set also not-found.
GoesOnAfter(entry) ==
    \/ entry[2] = ""
    \/ entry = Called("RecordSets.Get", "notfound")

\* C13. A call of Present issues at most one get-zone, one get-record-set and
\* one upsert, a call of CleanUp at most one get-zone and one delete; a call
\* that got a fatal error from the backend has returned an error at once: the
\* failed call is the last one it made.
C13_SingleShot ==
    \A c \in Calls :
        /\ \A o \in ZoneOperations \cup RecordSetOperations :
               Cardinality(Positions(c, o)) <= 1
        /\ \A i \in 1..Len(call[c].log) :
               ~GoesOnAfter(call[c].log[i])
               => /\ i = Len(call[c].log)
                  /\ Returned(c)
                  /\ call[c].err # ""

\* C13's case: a Present has returned the error of its upsert after a
\* get-zone and a read that succeeded, and a CleanUp the error of its delete.
C13_FailedAtTheWrite ==
    \E c, d \in Calls :
        /\ Returned(c) /\ call[c].op = "Present" /\ call[c].err = "put"
        /\ Answered(c, "Zones.Get", "")
        /\ Answered(c, "RecordSets.CreateOrUpdate", "error")
        /\ Returned(d) /\ call[d].op = "CleanUp" /\ call[d].err = "delete"

\* Zone resolution of call c has failed: the discovery, or the backend's
\* get-zone, not-found included.
ZoneResolutionFailed(c) ==
    \/ Answered(c, "FindZoneByFqdn", "error")
    \/ Answered(c, "Zones.Get", "notfound")
    \/ Answered(c, "Zones.Get", "error")

\* C14. With no override, a call of Present or CleanUp whose zone discovery
\* or get-zone fails, not-found included, has returned an error and issued no
\* record-set operation; no step creates or changes a zone.
C14_ZoneFailureIsTerminal ==
    [][/\ zones' = zones
       /\ \A c \in Calls :
            ZoneResolutionFailed(c)'
            => /\ Returned(c)' /\ call'[c].err = "zone"
               /\ \A o \in RecordSetOperations : ~Logged(c, o)']_vars

\* C14's case: the backend holds no zone, a Present has failed on the
\* not-found of get-zone and a CleanUp on a failed discovery.
C14_ZoneNotFound ==
    \E c, d \in Calls :
        /\ envZoneName = <<>>
        /\ zones = NoZones
        /\ call[c].op = "Present" /\ Answered(c, "Zones.Get", "notfound")
        /\ call[d].op = "CleanUp" /\ Answered(d, "FindZoneByFqdn", "error")

\* C15. With no override, a call whose get-zone succeeded works with a zone
\* name that has no trailing separator, whatever name the backend returned.
C15_ZoneNameCanonical ==
    \A c \in Calls :
        /\ envZoneName = <<>>
        /\ Answered(c, "Zones.Get", "")
        /\ call[c].pc \in {"get", "put", "delete"}
        => /\ call[c].zone # <<>>
           /\ Last(call[c].zone) # ""

\* The entries of several strings a record set holds whose first string is set.
MultiStringEntries(rs) ==
    {e \in DOMAIN rs.txt : Len(e) > 1 /\ e[1] # NilString}

\* C16. When a Present writes, each entry of several strings it read is in
\* the written record set as the one-string entry of its first string, and
\* none of its other strings is in the written record set.
C16_OnlyFirstStringCarried ==
    [][\A c \in Calls :
         /\ call[c].pc = "put"
         /\ Succeeded(c, "Present")'
         => \A e \in MultiStringEntries(ExistingRecords(c)) :
              /\ <<e[1]>> \in DOMAIN recordSets'[Key(c)].txt
              /\ e \notin DOMAIN recordSets'[Key(c)].txt
              /\ \A i \in 2..Len(e) :
                   e[i] \notin Strings(recordSets'[Key(c)])]_vars

\* C17. The record set a Present writes carries the configured TTL,
\* whatever the TTL of the record set it read.
C17_WrittenTTLIsConfigured ==
    [][\A c \in Calls :
         /\ call[c].pc = "put"
         /\ Succeeded(c, "Present")'
         => /\ recordSets'[Key(c)].exists
            /\ recordSets'[Key(c)].ttl = DefaultTTL]_vars

\* C17's case: a Present has read the record set that held "old", whose TTL
\* was 3600, and the record set stored is the one it wrote.
C17_OtherTTLOverwritten ==
    \E c \in Calls :
        /\ Succeeded(c, "Present")
        /\ Answered(c, "RecordSets.Get", "")
        /\ "old" \in Strings(recordSets[Key(c)])
        /\ recordSets[Key(c)].ttl = DefaultTTL
        /\ DefaultTTL # 3600

\* C18. A step changes the record set stored under a (zone, record name)
\* only as the write of a Present or the delete of a CleanUp called for that
\* zone and record name, and no step changes a zone.
C18_Frame ==
    [][/\ zones' = zones
       /\ \A k \in Keys :
            recordSets'[k] # recordSets[k]
            => \E c \in Calls :
                 /\ call[c].pc \in {"put", "delete"}
                 /\ call'[c].pc = "returned"
                 /\ <<call[c].zone, call[c].subDomain>> = k]_vars

\* C18's case: while a CleanUp for one record name waits to delete, a Present
\* for another record name has written its record set, and the record set of
\* the CleanUp is still stored.
C18_InterleavedOnTwoNames ==
    \E c, d \in Calls :
        /\ d < c
        /\ call[d].op = "CleanUp" /\ call[d].pc = "delete"
        /\ Succeeded(c, "Present")
        /\ <<call[c].zone, call[c].subDomain>> # <<call[d].zone, call[d].subDomain>>
        /\ Holds(<<call[c].zone, call[c].subDomain>>, call[c].value)
        /\ recordSets[<<call[d].zone, call[d].subDomain>>].exists

\* C19. When calls run one after the other and a Present for a value writes
\* right after a successful CleanUp for the same record name, the record set
\* stored is exactly the one entry of that value, whatever the record set
\* held before the CleanUp.
C19_FreshAfterCleanUp ==
    [][\A d \in Calls :
         /\ d > 1
         /\ Succeeded(d - 1, "CleanUp")
         /\ call[d].pc = "put"
         /\ Key(d) = <<call[d - 1].zone, call[d - 1].subDomain>>
         /\ Succeeded(d, "Present")'
         => /\ recordSets'[Key(d)].exists
            /\ recordSets'[Key(d)].txt = SetToBag({ <<call[d].value>> })]_vars

\* C19's case: a CleanUp has succeeded, the Present called next for the same
\* record name and another value has found no record set and has written,
\* and the record set holds that value alone.
C19_PresentAfterCleanUp ==
    \E d \in Calls :
        /\ d > 1
        /\ Succeeded(d - 1, "CleanUp")
        /\ Succeeded(d, "Present")
        /\ Key(d) = Key(d - 1)
        /\ Key(d) = HostedKey
        /\ call[d].value # call[d - 1].value
        /\ Answered(d, "RecordSets.Get", "notfound")
        /\ Strings(recordSets[Key(d)]) = { call[d].value }

\* The entries of a record set that have no first string: no string at all,
\* or a first string that is nil.
EntriesWithoutFirstString(rs) ==
    {e \in DOMAIN rs.txt : Len(e) = 0 \/ e[1] = NilString}

\* C20. A Present that has read entries without a first string goes on to
\* its write, fails there only when the backend fails, and writes a record
\* set whose strings are its value and first strings of the other entries
\* read: no nil, no entry without strings.
C20_EntriesWithoutFirstStringSkipped ==
    [][\A c \in Calls :
         /\ (/\ call[c].pc = "get"
             /\ Answered(c, "RecordSets.Get", "")'
             => call'[c].pc = "put")
         /\ (/\ call[c].pc = "put"
             /\ EntriesWithoutFirstString(ExistingRecords(c)) # {}
             /\ Returned(c)'
             => IF call'[c].err # ""
                THEN Answered(c, "RecordSets.CreateOrUpdate", "error")'
                ELSE /\ NilString \notin Strings(recordSets'[Key(c)])
                     /\ <<>> \notin DOMAIN recordSets'[Key(c)].txt
                     /\ Strings(recordSets'[Key(c)]) \subseteq
                          { call[c].value } \cup
                          { e[1] : e \in DOMAIN ExistingRecords(c).txt
                                         \ EntriesWithoutFirstString(ExistingRecords(c)) })]_vars

\* C20's case: a Present has read the record set that holds "old", an entry
\* of no string and an entry whose first string is nil, and has written
\* "old" and its value.
C20_WroteWithoutTheEmptyEntries ==
    \E c \in Calls :
        /\ Succeeded(c, "Present")
        /\ Answered(c, "RecordSets.Get", "")
        /\ loopVarPerIteration
        /\ Strings(recordSets[Key(c)]) = { "old", call[c].value }

====
